---- MODULE Spec2Model ----
(***************************************************************************)
(* Reviewer selection of policy-bot: policy/reviewer/reviewer.go.          *)
(*                                                                         *)
(* FindRandomRequesters walks a tree of policy results, and for every      *)
(* pending leaf builds a candidate set from the rule's users, one random   *)
(* team, one random organization, the write collaborators and the admins,  *)
(* removes the author and the non-collaborators, and samples RequiredCount *)
(* of the rest.  The pull.Context (prctx) is the environment: each call of *)
(* it either fails or answers with a value of a small set, chosen when the *)
(* call is made.  The generator r is the environment too: each r.Intn(k)   *)
(* yields any value of 0..k-1.                                             *)
(***************************************************************************)
EXTENDS Integers, Sequences, FiniteSets, TLC

VARIABLES
    pc,                      \* position in FindRandomRequesters / selectRandomUsers
    result,                  \* the argument of FindRandomRequesters
    pendingLeafNodes,        \* line 158
    idx,                     \* position of the range loop of line 163 (1-based)
    requestedUsers,          \* line 159
    allUsers,                \* line 164, the keys of the map
    allCollaborators,        \* line 193
    collaboratorsToConsider, \* line 192
    adminUsers,              \* selectAdmins, line 100
    adminTeams,              \* selectAdmins, the admin teams the loop of line 128 has yet to visit
    allUserList,             \* line 223; the users argument of selectRandomUsers
    n,                       \* selectRandomUsers: n
    i,                       \* selectRandomUsers: i
    j,                       \* selectRandomUsers: j
    selected,                \* selectRandomUsers: the keys of selected that are true
    selections,              \* selectRandomUsers: selections
    randomSelection,         \* line 234, what selectRandomUsers returned
    ret,                     \* the []string FindRandomRequesters returned
    err,                     \* whether FindRandomRequesters returned a non-nil error
    draws,                   \* history: r.Intn calls made by the running selectRandomUsers
    calls,                   \* history: the calls of the pull.Context made for this leaf, and their answers
    blocks                   \* history: one record per leaf whose selection was appended

vars == <<pc, result, pendingLeafNodes, idx, requestedUsers, allUsers,
          allCollaborators, collaboratorsToConsider, adminUsers, adminTeams,
          allUserList, n, i, j, selected, selections, randomSelection, ret,
          err, draws, calls, blocks>>

(***************************************************************************)
(* Values of the packages common and pull that reviewer.go uses.           *)
(***************************************************************************)
StatusPending == "pending"
StatusApproved == "approved"
Statuses == {StatusPending, StatusApproved}

NoError == "nil"
SomeError == "error"
Errors == {NoError, SomeError}

GithubWritePermission == "write"
GithubAdminPermission == "admin"
GithubReadPermission == "read"

AdminScopeUser == "user"
AdminScopeTeam == "team"
AdminScopeOrg == "org"
AdminScopeOther == "everyone"
AdminScopes == {AdminScopeUser, AdminScopeTeam, AdminScopeOrg, AdminScopeOther}

\* A nil *common.Result among the children of a result.
NilResult == [isNil |-> TRUE]

Result(status, error, children, rule) ==
    [Status |-> status, Error |-> error, Children |-> children,
     ReviewRequestRule |-> rule]

Rule(users, teams, orgs, write, admins, scope, count) ==
    [Users |-> users, Teams |-> teams, Organizations |-> orgs,
     WriteCollaborators |-> write, Admins |-> admins, AdminScope |-> scope,
     RequiredCount |-> count]

(***************************************************************************)
(* Helpers on sequences, sets and maps.                                    *)
(***************************************************************************)
Range(s) == {s[k] : k \in DOMAIN s}

Min(a, b) == IF a <= b THEN a ELSE b

IsDuplicateFree(s) == \A k, l \in DOMAIN s : k # l => s[k] # s[l]

\* Every order in which the elements of a set can come out of a map iteration.
Orderings(S) ==
    {s \in [1..Cardinality(S) -> S] : \A k, l \in DOMAIN s : k # l => s[k] # s[l]}

SeqsUpTo(S, len) == UNION {[1..k -> S] : k \in 0..len}

EmptyMap == [u \in {} |-> GithubReadPermission]

\* The keys of a permission map that hold permission perm.
KeysWith(m, perm) == {u \in DOMAIN m : m[u] = perm}

\* A call of the pull.Context: it fails, or it answers with a value.
Failed == [ok |-> FALSE]
Answer(v) == [ok |-> TRUE, val |-> v]
Responses(S) == {Failed} \cup {Answer(v) : v \in S}

\* The record of a call: the line that makes it, the method, its argument
\* and what it answered.
Call(line, fn, arg, resp) == [line |-> line, fn |-> fn, arg |-> arg, resp |-> resp]

\* The record of a call whose answer the history does not need: only
\* whether it failed.
Outcome(resp) == [ok |-> resp.ok]

(***************************************************************************)
(* findLeafChildren, lines 29-46.                                          *)
(***************************************************************************)
RECURSIVE findLeafChildren(_)
findLeafChildren(res) ==
    IF Len(res.Children) = 0
    THEN IF res.Status = StatusPending /\ res.Error = NoError
         THEN <<res>>
         ELSE <<>>
    ELSE LET r[k \in 0..Len(res.Children)] ==
                 IF k = 0 THEN <<>>
                 ELSE LET c == res.Children[k] IN
                      IF c = NilResult THEN r[k - 1]
                      ELSE IF c.Status = StatusPending
                           THEN r[k - 1] \o findLeafChildren(c)
                           ELSE r[k - 1]
         IN r[Len(res.Children)]

(***************************************************************************)
(* Bounds and inputs.                                                      *)
(***************************************************************************)
\* Result trees of the leaf collector's own specification.
TreeDepth == 2
TreeWidth == 2

\* The largest RequiredCount of a rule.
MaxCount == 2

\* The largest n handed to selectRandomUsers on its own.
MaxN == 3

\* selectRandomUsers, line 63: the factor of the bound on j.
AttemptFactor == 5

Author == "a"
Logins == {"a", "b", "c"}
RepositoryOwner == "o"
TeamNames == {"x", "y"}

NoRule == Rule(<<>>, <<>>, <<>>, FALSE, FALSE, AdminScopeUser, 0)

RECURSIVE TreesOfDepth(_)
TreesOfDepth(d) ==
    LET leaves == {Result(s, e, <<>>, NoRule) : s \in Statuses, e \in Errors}
    IN IF d = 0 THEN leaves
       ELSE LET below == TreesOfDepth(d - 1) \cup {NilResult}
            IN leaves \cup
               {Result(s, e, cs, NoRule) :
                    s \in Statuses, e \in Errors,
                    cs \in SeqsUpTo(below, TreeWidth) \ {<<>>}}

\* Rules of a tree with a single leaf: every combination of the sources
\* (with admins, every combination of the sources but the organizations).
UserLists == {<<>>, <<"a", "b">>, <<"b", "c">>}
TeamLists == {<<>>, <<"o/x", "o/y">>}
OrgLists == {<<>>, <<"o", "p">>}

Rules ==
    {Rule(us, ts, os, w, FALSE, AdminScopeUser, c) :
        us \in UserLists, ts \in TeamLists, os \in OrgLists,
        w \in BOOLEAN, c \in 0..MaxCount}
    \cup
    {Rule(us, ts, <<>>, w, TRUE, sc, c) :
        us \in UserLists, ts \in TeamLists,
        w \in BOOLEAN, sc \in AdminScopes, c \in 0..MaxCount}

\* Rules of the leaves of a tree with several leaves.
FewRules ==
    {Rule(<<"a", "b">>, <<>>, <<>>, FALSE, FALSE, AdminScopeUser, 1),
     Rule(<<"b", "c">>, <<>>, <<>>, FALSE, FALSE, AdminScopeUser, 1),
     Rule(<<"c">>, <<"o/x">>, <<>>, FALSE, FALSE, AdminScopeUser, MaxCount),
     Rule(<<>>, <<>>, <<"p">>, TRUE, TRUE, AdminScopeOrg, 1),
     Rule(<<"b">>, <<>>, <<>>, FALSE, TRUE, AdminScopeTeam, MaxCount),
     Rule(<<"c">>, <<>>, <<>>, FALSE, TRUE, AdminScopeOther, 1)}

Leaf(s, e, rule) == Result(s, e, <<>>, rule)

InputTrees ==
    {Leaf(StatusPending, NoError, rule) : rule \in Rules}
    \cup
    {Result(s, NoError, <<Leaf(StatusPending, NoError, r1), c2>>, NoRule) :
        s \in Statuses, r1 \in FewRules,
        c2 \in {NilResult, Leaf(StatusApproved, NoError, NoRule),
                Leaf(StatusPending, SomeError, NoRule)}
               \cup {Leaf(StatusPending, NoError, r2) : r2 \in FewRules}}
    \cup
    {Result(StatusPending, NoError,
            <<Result(s, NoError,
                     <<Leaf(StatusPending, NoError, r1), NilResult,
                       Leaf(StatusPending, NoError, r2)>>, NoRule),
              Leaf(StatusPending, NoError, r1)>>, NoRule) :
        s \in Statuses, r1 \in {r \in FewRules : ~r.Admins},
        r2 \in {r \in FewRules : r.Users = <<"b", "c">>}}

\* What the calls of the pull.Context answer when they do not fail.
MemberLists == {<<>>, <<"a", "b">>, <<"c">>}

PermissionMaps ==
    {EmptyMap,
     [u \in {"b"} |-> GithubReadPermission],
     [u \in Logins |->
         IF u = "a" THEN GithubAdminPermission
         ELSE IF u = "b" THEN GithubWritePermission ELSE GithubReadPermission],
     [u \in Logins |->
         IF u = "b" THEN GithubAdminPermission ELSE GithubWritePermission]}

TeamPermissionMaps ==
    {EmptyMap,
     [t \in TeamNames |->
         IF t = "x" THEN GithubAdminPermission ELSE GithubWritePermission],
     [t \in TeamNames |-> GithubAdminPermission]}

(***************************************************************************)
(* FindRandomRequesters, lines 156-239.                                    *)
(***************************************************************************)
child == pendingLeafNodes[idx]

rule == child.ReviewRequestRule

\* A bug: the users requested so far are returned with the error.
C5_ReturnPartial ==
    /\ pc' = "done"
    /\ ret' = requestedUsers
    /\ err' = TRUE

\* return nil, errors.Wrap(err, ...): lines 195 and 214
ReturnError ==
    /\ pc' = "done"
    /\ ret' = <<>>
    /\ err' = TRUE

\* line 158
Collect ==
    /\ pc = "start"
    /\ pendingLeafNodes' = findLeafChildren(result)
    /\ idx' = 1
    /\ requestedUsers' = <<>>
    /\ pc' = "loop"
    /\ UNCHANGED <<result, allUsers, allCollaborators, collaboratorsToConsider,
                   adminUsers, adminTeams, allUserList, n, i, j, selected,
                   selections, randomSelection, ret, err, draws, calls, blocks>>

\* lines 163-170: the next leaf, and its explicit users
BeginLeaf ==
    /\ pc = "loop"
    /\ idx <= Len(pendingLeafNodes)
    /\ allUsers' = Range(rule.Users)
    /\ calls' = <<>>
    /\ pc' = "teams"
    /\ UNCHANGED <<result, pendingLeafNodes, idx, requestedUsers,
                   allCollaborators, collaboratorsToConsider, adminUsers,
                   adminTeams, allUserList, n, i, j, selected, selections,
                   randomSelection, ret, err, draws, blocks>>

\* line 238: the loop is over
Return ==
    /\ pc = "loop"
    /\ idx > Len(pendingLeafNodes)
    /\ pc' = "done"
    /\ ret' = requestedUsers
    /\ err' = FALSE
    /\ UNCHANGED <<result, pendingLeafNodes, idx, requestedUsers, allUsers,
                   allCollaborators, collaboratorsToConsider, adminUsers,
                   adminTeams, allUserList, n, i, j, selected, selections,
                   randomSelection, draws, calls, blocks>>

\* selectTeamMembers, lines 79-86, and selectOrgMembers, lines 88-95: m is
\* the value of r.Intn(len(all)), resp what the lookup of all[m] answers.
\* The result is the pair (members, err), and the lookup that was made.
selectMembers(line, fn, all, m, resp) ==
    LET random == all[m + 1] IN
    [members |-> IF resp.ok THEN resp.val ELSE <<>>,
     err |-> ~resp.ok,
     call |-> Call(line, fn, random, resp)]

\* A bug: the failure of the team lookup ends the call with an error.
C6_SelectTeamOrFail ==
    /\ pc = "teams"
    /\ IF Len(rule.Teams) > 0
       THEN \E m \in 0..(Len(rule.Teams) - 1), resp \in Responses(MemberLists) :
                LET got == selectMembers(81, "TeamMembers", rule.Teams, m, resp)
                IN /\ calls' = Append(calls, got.call)
                   /\ IF got.err
                      THEN /\ ReturnError
                           /\ UNCHANGED allUsers
                      ELSE /\ allUsers' = allUsers \cup Range(got.members)
                           /\ pc' = "orgs"
                           /\ UNCHANGED <<ret, err>>
       ELSE /\ pc' = "orgs"
            /\ UNCHANGED <<allUsers, calls, ret, err>>
    /\ UNCHANGED <<result, pendingLeafNodes, idx, requestedUsers,
                   allCollaborators, collaboratorsToConsider, adminUsers,
                   adminTeams, allUserList, n, i, j, selected, selections,
                   randomSelection, draws, blocks>>

\* A bug: the members of every configured team are looked up and added.
C10_SelectEveryTeam ==
    /\ pc = "teams"
    /\ \E resps \in [DOMAIN rule.Teams -> Responses(MemberLists)] :
        /\ allUsers' = allUsers \cup
               UNION {IF resps[k].ok THEN Range(resps[k].val) ELSE {} :
                         k \in DOMAIN rule.Teams}
        /\ calls' = calls \o
               [k \in DOMAIN rule.Teams |->
                   Call(81, "TeamMembers", rule.Teams[k], resps[k])]
    /\ pc' = "orgs"
    /\ UNCHANGED <<result, pendingLeafNodes, idx, requestedUsers,
                   allCollaborators, collaboratorsToConsider, adminUsers,
                   adminTeams, allUserList, n, i, j, selected, selections,
                   randomSelection, ret, err, draws, blocks>>

\* lines 172-180
SelectTeam ==
    /\ pc = "teams"
    /\ IF Len(rule.Teams) > 0
       THEN \E m \in 0..(Len(rule.Teams) - 1), resp \in Responses(MemberLists) :
                LET got == selectMembers(81, "TeamMembers", rule.Teams, m, resp)
                IN /\ allUsers' = allUsers \cup Range(got.members)
                   /\ calls' = Append(calls, got.call)
       ELSE UNCHANGED <<allUsers, calls>>
    /\ pc' = "orgs"
    /\ UNCHANGED <<result, pendingLeafNodes, idx, requestedUsers,
                   allCollaborators, collaboratorsToConsider, adminUsers,
                   adminTeams, allUserList, n, i, j, selected, selections,
                   randomSelection, ret, err, draws, blocks>>

\* lines 182-190
SelectOrg ==
    /\ pc = "orgs"
    /\ IF Len(rule.Organizations) > 0
       THEN \E m \in 0..(Len(rule.Organizations) - 1),
               resp \in Responses(MemberLists) :
                LET got == selectMembers(90, "OrganizationMembers",
                                         rule.Organizations, m, resp)
                IN /\ allUsers' = allUsers \cup Range(got.members)
                   /\ calls' = Append(calls, got.call)
       ELSE UNCHANGED <<allUsers, calls>>
    /\ pc' = "collaborators"
    /\ UNCHANGED <<result, pendingLeafNodes, idx, requestedUsers,
                   allCollaborators, collaboratorsToConsider, adminUsers,
                   adminTeams, allUserList, n, i, j, selected, selections,
                   randomSelection, ret, err, draws, blocks>>

\* lines 192-211: the collaborators, the write collaborators, and who is
\* considered when the rule does not ask for admins
ListCollaborators ==
    /\ pc = "collaborators"
    /\ \E resp \in Responses(PermissionMaps) :
        /\ calls' = Append(calls, Call(193, "RepositoryCollaborators", "",
                                       Outcome(resp)))
        /\ IF ~resp.ok
           THEN /\ ReturnError
                /\ UNCHANGED <<allUsers, allCollaborators,
                               collaboratorsToConsider>>
           ELSE /\ allCollaborators' = resp.val
                /\ allUsers' =
                       IF rule.WriteCollaborators
                       THEN allUsers \cup KeysWith(resp.val, GithubWritePermission)
                       ELSE allUsers
                /\ collaboratorsToConsider' =
                       IF ~rule.Admins THEN resp.val ELSE EmptyMap
                /\ pc' = IF ~rule.Admins THEN "filter" ELSE "admins"
                /\ UNCHANGED <<ret, err>>
    /\ UNCHANGED <<result, pendingLeafNodes, idx, requestedUsers, adminUsers,
                   adminTeams, allUserList, n, i, j, selected, selections,
                   randomSelection, draws, blocks>>

\* selectAdmins, lines 104-118: the direct collaborators with admin permission
SelectAdminsUser ==
    /\ pc = "admins"
    /\ rule.AdminScope = AdminScopeUser
    /\ \E resp \in Responses(PermissionMaps) :
        /\ calls' = Append(calls, Call(106, "DirectRepositoryCollaborators", "",
                                       Outcome(resp)))
        /\ IF ~resp.ok
           THEN /\ ReturnError
                /\ UNCHANGED adminUsers
           ELSE /\ \E repoAdmins \in Orderings(KeysWith(resp.val,
                                                        GithubAdminPermission)) :
                       adminUsers' = repoAdmins
                /\ pc' = "addAdmins"
                /\ UNCHANGED <<ret, err>>
    /\ UNCHANGED <<result, pendingLeafNodes, idx, requestedUsers, allUsers,
                   allCollaborators, collaboratorsToConsider, adminTeams,
                   allUserList, n, i, j, selected, selections,
                   randomSelection, draws, blocks>>

\* selectAdmins, lines 119-127: the teams of the repository
SelectAdminsTeam ==
    /\ pc = "admins"
    /\ rule.AdminScope = AdminScopeTeam
    /\ \E resp \in Responses(TeamPermissionMaps) :
        /\ calls' = Append(calls, Call(123, "Teams", "", Outcome(resp)))
        /\ IF ~resp.ok
           THEN /\ ReturnError
                /\ UNCHANGED <<adminUsers, adminTeams>>
           ELSE /\ adminTeams' = KeysWith(resp.val, GithubAdminPermission)
                /\ adminUsers' = <<>>
                /\ pc' = "adminTeams"
                /\ UNCHANGED <<ret, err>>
    /\ UNCHANGED <<result, pendingLeafNodes, idx, requestedUsers, allUsers,
                   allCollaborators, collaboratorsToConsider, allUserList, n,
                   i, j, selected, selections, randomSelection, draws,
                   blocks>>

\* fmt.Sprintf("%s/%s", prctx.RepositoryOwner(), team), line 130
FullTeamName(team) == RepositoryOwner \o "/" \o team

\* selectAdmins, lines 128-137: the members of one more admin team, in the
\* order of the map iteration; the first failed lookup ends the call
AdminTeamMembers ==
    /\ pc = "adminTeams"
    /\ IF adminTeams = {}
       THEN /\ pc' = "addAdmins"
            /\ UNCHANGED <<adminUsers, adminTeams, ret, err, calls>>
       ELSE \E team \in adminTeams, resp \in Responses(MemberLists) :
            /\ calls' = Append(calls, Call(131, "TeamMembers",
                                           FullTeamName(team), Outcome(resp)))
            /\ IF ~resp.ok
               THEN /\ ReturnError
                    /\ UNCHANGED <<adminUsers, adminTeams>>
               ELSE /\ adminUsers' = adminUsers \o resp.val
                    /\ adminTeams' = adminTeams \ {team}
                    /\ UNCHANGED <<pc, ret, err>>
    /\ UNCHANGED <<result, pendingLeafNodes, idx, requestedUsers, allUsers,
                   allCollaborators, collaboratorsToConsider, allUserList, n,
                   i, j, selected, selections, randomSelection, draws,
                   blocks>>

\* selectAdmins, lines 138-147: the owners of the organization
SelectAdminsOrg ==
    /\ pc = "admins"
    /\ rule.AdminScope = AdminScopeOrg
    /\ \E resp \in Responses(MemberLists) :
        /\ calls' = Append(calls, Call(140, "OrganizationOwners",
                                       RepositoryOwner, Outcome(resp)))
        /\ IF ~resp.ok
           THEN /\ ReturnError
                /\ UNCHANGED adminUsers
           ELSE /\ adminUsers' = resp.val
                /\ pc' = "addAdmins"
                /\ UNCHANGED <<ret, err>>
    /\ UNCHANGED <<result, pendingLeafNodes, idx, requestedUsers, allUsers,
                   allCollaborators, collaboratorsToConsider, adminTeams,
                   allUserList, n, i, j, selected, selections,
                   randomSelection, draws, blocks>>

\* selectAdmins, lines 148-150: any other scope
SelectAdminsDefault ==
    /\ pc = "admins"
    /\ rule.AdminScope \notin {AdminScopeUser, AdminScopeTeam, AdminScopeOrg}
    /\ ReturnError
    /\ UNCHANGED <<result, pendingLeafNodes, idx, requestedUsers, allUsers,
                   allCollaborators, collaboratorsToConsider, adminUsers,
                   adminTeams, allUserList, n, i, j, selected, selections,
                   randomSelection, draws, calls, blocks>>

\* lines 217-220: the admins are candidates, and the only ones considered
AddAdmins ==
    /\ pc = "addAdmins"
    /\ allUsers' = allUsers \cup Range(adminUsers)
    /\ collaboratorsToConsider' =
           [u \in Range(adminUsers) |-> GithubAdminPermission]
    /\ pc' = "filter"
    /\ UNCHANGED <<result, pendingLeafNodes, idx, requestedUsers,
                   allCollaborators, adminUsers, adminTeams, allUserList, n,
                   i, j, selected, selections, randomSelection, ret, err,
                   draws, calls, blocks>>

\* A bug: the author is not removed.
C3_RetainedWithAuthor(users, considered, author) ==
    {u \in users : u \in DOMAIN considered}

\* A bug: the users who are not considered are not removed.
C4_RetainedAnyone(users, considered, author) == {u \in users : u # author}

\* lines 224-231: who of users stays, given the map of those considered
Retained(users, considered, author) ==
    {u \in users : u # author /\ u \in DOMAIN considered}

\* lines 223-234: allUserList, in the order of the map iteration, and the
\* call of selectRandomUsers
Filter ==
    /\ pc = "filter"
    /\ \E list \in Orderings(Retained(allUsers, collaboratorsToConsider,
                                       Author)) :
            allUserList' = list
    /\ n' = rule.RequiredCount
    /\ pc' = "select"
    /\ UNCHANGED <<result, pendingLeafNodes, idx, requestedUsers, allUsers,
                   allCollaborators, collaboratorsToConsider, adminUsers,
                   adminTeams, i, j, selected, selections, randomSelection,
                   ret, err, draws, calls, blocks>>

(***************************************************************************)
(* selectRandomUsers, lines 49-77.                                         *)
(***************************************************************************)
\* A bug: the bound on j is reached one collision earlier.
C9_ExhaustedEarly(jj, nn) == jj >= nn * AttemptFactor

\* line 63
AttemptsExhausted(jj, nn) == jj > nn * AttemptFactor

\* A bug: the draw is never compared with the earlier ones.
C2_NeverSelected(m, sel) == FALSE

\* line 68
AlreadySelected(m, sel) == m \in sel

\* lines 50-58: the two early returns, or the start of the loop
SelectStart ==
    /\ pc = "select"
    /\ draws' = 0
    /\ selections' = <<>>
    /\ selected' = {}
    /\ i' = 0
    /\ j' = 0
    /\ IF n = 0
       THEN /\ randomSelection' = <<>>
            /\ pc' = "selected"
       ELSE IF n >= Len(allUserList)
            THEN /\ randomSelection' = allUserList
                 /\ pc' = "selected"
            ELSE /\ randomSelection' = <<>>
                 /\ pc' = "draw"
    /\ UNCHANGED <<result, pendingLeafNodes, idx, requestedUsers, allUsers,
                   allCollaborators, collaboratorsToConsider, adminUsers,
                   adminTeams, allUserList, n, ret, err, calls,
                   blocks>>

\* lines 61-74: one pass of the inner loop; m is what r.Intn answers
Draw ==
    /\ pc = "draw"
    /\ IF AttemptsExhausted(j, n)
       THEN /\ pc' = "panic"
            /\ UNCHANGED <<i, j, selected, selections, randomSelection,
                           draws>>
       ELSE \E m \in 0..(Len(allUserList) - 1) :
            /\ draws' = draws + 1
            /\ IF ~AlreadySelected(m, selected)
               THEN /\ selected' = selected \cup {m}
                    /\ selections' = Append(selections, allUserList[m + 1])
                    /\ i' = i + 1
                    /\ j' = 0
                    /\ IF i + 1 < n
                       THEN /\ pc' = "draw"
                            /\ UNCHANGED randomSelection
                       ELSE /\ pc' = "selected"
                            /\ randomSelection' =
                                   Append(selections, allUserList[m + 1])
               ELSE /\ j' = j + 1
                    /\ UNCHANGED <<pc, i, selected, selections,
                                   randomSelection>>
    /\ UNCHANGED <<result, pendingLeafNodes, idx, requestedUsers, allUsers,
                   allCollaborators, collaboratorsToConsider, adminUsers,
                   adminTeams, allUserList, n, ret, err, calls,
                   blocks>>

\* A bug: the selection of a leaf replaces those of the leaves before it.
C7_Overwrite(requested, selection) == selection

\* append(requestedUsers, randomSelection...), line 235
AppendAll(requested, selection) == requested \o selection

\* line 235, and the end of the loop body: its variables go out of scope
AppendSelection ==
    /\ pc = "selected"
    /\ requestedUsers' = AppendAll(requestedUsers, randomSelection)
    /\ blocks' = Append(blocks,
                        [leaf |-> child, candidates |-> allUserList,
                         selection |-> randomSelection,
                         lookupFailed |->
                             \E k \in DOMAIN calls :
                                 /\ calls[k].line \in {81, 90}
                                 /\ ~calls[k].resp.ok])
    /\ idx' = idx + 1
    /\ pc' = "loop"
    /\ allUsers' = {}
    /\ allCollaborators' = EmptyMap
    /\ collaboratorsToConsider' = EmptyMap
    /\ adminUsers' = <<>>
    /\ allUserList' = <<>>
    /\ n' = 0 /\ i' = 0 /\ j' = 0 /\ draws' = 0
    /\ selected' = {}
    /\ selections' = <<>>
    /\ randomSelection' = <<>>
    /\ calls' = <<>>
    /\ UNCHANGED <<result, pendingLeafNodes, adminTeams, ret, err>>

(***************************************************************************)
(* The specifications.                                                     *)
(***************************************************************************)
Fresh ==
    /\ pendingLeafNodes = <<>>
    /\ idx = 1
    /\ requestedUsers = <<>>
    /\ allUsers = {}
    /\ allCollaborators = EmptyMap
    /\ collaboratorsToConsider = EmptyMap
    /\ adminUsers = <<>>
    /\ adminTeams = {}
    /\ i = 0 /\ j = 0 /\ draws = 0
    /\ selected = {}
    /\ selections = <<>>
    /\ randomSelection = <<>>
    /\ ret = <<>>
    /\ err = FALSE
    /\ calls = <<>>
    /\ blocks = <<>>

\* A call of FindRandomRequesters.
Init ==
    /\ pc = "start"
    /\ result \in InputTrees
    /\ allUserList = <<>>
    /\ n = 0
    /\ Fresh

Next ==
    \/ Collect
    \/ BeginLeaf
    \/ SelectTeam
    \/ SelectOrg
    \/ ListCollaborators
    \/ SelectAdminsUser
    \/ SelectAdminsTeam
    \/ AdminTeamMembers
    \/ SelectAdminsOrg
    \/ SelectAdminsDefault
    \/ AddAdmins
    \/ Filter
    \/ SelectStart
    \/ Draw
    \/ AppendSelection
    \/ Return

Spec == Init /\ [][Next]_vars

\* A call of findLeafChildren on any tree.
InitLeaf ==
    /\ pc = "start"
    /\ result \in TreesOfDepth(TreeDepth)
    /\ allUserList = <<>>
    /\ n = 0
    /\ Fresh

NextLeaf == Collect

SpecLeaf == InitLeaf /\ [][NextLeaf]_vars

\* A call of selectRandomUsers on any n and any list a map iteration yields.
SampleLogins == {"a", "b", "c", "d"}

InitSample ==
    /\ pc = "select"
    /\ result = Leaf(StatusPending, NoError, NoRule)
    /\ n \in 0..MaxN
    /\ allUserList \in UNION {Orderings(S) : S \in SUBSET SampleLogins}
    /\ Fresh

NextSample == SelectStart \/ Draw

SpecSample == InitSample /\ [][NextSample]_vars

(***************************************************************************)
(* The tree, by paths: a path is the sequence of child positions that      *)
(* leads from the root to a result.                                        *)
(***************************************************************************)
RECURSIVE PathsOf(_)
PathsOf(res) ==
    {<<>>} \cup
    UNION {{<<k>> \o p : p \in PathsOf(res.Children[k])} :
              k \in {l \in DOMAIN res.Children : res.Children[l] # NilResult}}

RECURSIVE NodeAt(_, _)
NodeAt(res, p) ==
    IF p = <<>> THEN res ELSE NodeAt(res.Children[Head(p)], Tail(p))

\* p comes before q in the depth-first, left-to-right order (neither is a
\* prefix of the other)
Before(p, q) ==
    \E k \in 1..Min(Len(p), Len(q)) :
        /\ p[k] < q[k]
        /\ \A l \in 1..(k - 1) : p[l] = q[l]

\* The results at the paths P, in depth-first, left-to-right order.
LeavesAt(res, P) ==
    [k \in 1..Cardinality(P) |->
        NodeAt(res, CHOOSE p \in P : Cardinality({q \in P : Before(q, p)}) = k - 1)]

IsReviewable(node) ==
    /\ Len(node.Children) = 0
    /\ node.Status = StatusPending
    /\ node.Error = NoError

\* The ancestors of the result at p, from the from-th on (0 is the root).
AncestorsPending(res, p, from) ==
    \A k \in from..(Len(p) - 1) :
        NodeAt(res, SubSeq(p, 1, k)).Status = StatusPending

\* The reviewable leaves under pending ancestors, the root included.
ClaimedLeafPaths(res) ==
    {p \in PathsOf(res) :
        IsReviewable(NodeAt(res, p)) /\ AncestorsPending(res, p, 0)}

\* The reviewable leaves under pending ancestors below the root.
CollectedLeafPaths(res) ==
    {p \in PathsOf(res) :
        IsReviewable(NodeAt(res, p)) /\ AncestorsPending(res, p, 1)}

(***************************************************************************)
(* C1.  findLeafChildren(root) returns exactly the results that have no    *)
(* children, are pending, have no error, and whose every ancestor up to    *)
(* and including the root is pending.  The code does not look at the       *)
(* status of a root that has children.                                     *)
(***************************************************************************)
C1_LeavesUnderPendingAncestors ==
    pc = "loop" =>
        pendingLeafNodes = LeavesAt(result, ClaimedLeafPaths(result))

\* What findLeafChildren does return: the reviewable leaves whose ancestors
\* below the root are pending, in depth-first, left-to-right order.
CollectedLeaves ==
    pc = "loop" =>
        pendingLeafNodes = LeavesAt(result, CollectedLeafPaths(result))

(***************************************************************************)
(* C2.  What selectRandomUsers(n, candidates, r) returns is empty when     *)
(* n = 0, is candidates when n >= len(candidates), and otherwise has n     *)
(* pairwise distinct elements of candidates; it has no duplicates and no   *)
(* more elements than n or than candidates.  The candidates are the keys   *)
(* of a map (lines 223-231), hence without duplicates.                     *)
(***************************************************************************)
C2_SelectionShape ==
    pc = "selected" =>
        /\ n = 0 => randomSelection = <<>>
        /\ n >= Len(allUserList) => randomSelection = allUserList
        /\ (0 < n /\ n < Len(allUserList)) =>
               /\ Len(randomSelection) = n
               /\ Range(randomSelection) \subseteq Range(allUserList)
        /\ IsDuplicateFree(randomSelection)
        /\ Len(randomSelection) <= n
        /\ Len(randomSelection) <= Len(allUserList)

C2_Witness ==
    /\ pc = "selected"
    /\ 1 < n /\ n < Len(allUserList)
    /\ draws > n

(***************************************************************************)
(* C3.  The list FindRandomRequesters returns never contains the author.   *)
(***************************************************************************)
C3_AuthorNeverRequested ==
    /\ Author \notin Range(randomSelection)
    /\ Author \notin Range(requestedUsers)
    /\ Author \notin Range(ret)

C3_Witness ==
    /\ pc = "done" /\ ~err
    /\ Len(blocks) = 2
    /\ Author \in Range(blocks[1].leaf.ReviewRequestRule.Users)
    /\ blocks[1].selection # <<>>
    /\ blocks[2].leaf.ReviewRequestRule.Admins
    /\ blocks[2].selection # <<>>

(***************************************************************************)
(* C4.  Every login a leaf contributes is eligible for that leaf: with     *)
(* admins, it is one of the admins selectAdmins resolved; without, it is a *)
(* key of the map RepositoryCollaborators answered.                        *)
(***************************************************************************)
C4_RequestedAreEligible ==
    pc = "selected" =>
        Range(randomSelection) \subseteq
            (IF rule.Admins THEN Range(adminUsers) ELSE DOMAIN allCollaborators)

C4_Witness ==
    /\ pc = "selected"
    /\ rule.Admins
    /\ randomSelection # <<>>
    /\ \E u \in allUsers \ Range(adminUsers) :
           u # Author /\ u \in DOMAIN allCollaborators

(***************************************************************************)
(* The lookups of a leaf, from the history of its calls.                   *)
(***************************************************************************)
InLeaf ==
    \/ pc \in {"teams", "orgs", "collaborators", "admins", "adminTeams",
               "addAdmins", "filter", "select", "draw", "selected"}
    \/ pc = "done" /\ err

LookupsAt(line) == SelectSeq(calls, LAMBDA c : c.line = line)

\* The logins a sequence of member lookups answered; a failed one, none.
Answered(lookups) ==
    UNION {IF lookups[k].resp.ok THEN Range(lookups[k].resp.val) ELSE {} :
              k \in DOMAIN lookups}

FillLookupFailed ==
    \E k \in DOMAIN calls : calls[k].line \in {81, 90} /\ ~calls[k].resp.ok

RequiredLookupFailed ==
    \E k \in DOMAIN calls : calls[k].line \notin {81, 90} /\ ~calls[k].resp.ok

UnknownAdminScope ==
    /\ rule.Admins
    /\ rule.AdminScope \notin {AdminScopeUser, AdminScopeTeam, AdminScopeOrg}

\* The call returned an error and no login, before the leaf at idx was done.
Aborted ==
    /\ pc = "done"
    /\ err
    /\ ret = <<>>
    /\ idx <= Len(pendingLeafNodes)
    /\ Len(blocks) = idx - 1

(***************************************************************************)
(* C5.  When the RepositoryCollaborators listing fails, or the leaf asks   *)
(* for admins and a lookup of selectAdmins fails or the scope is unknown,  *)
(* FindRandomRequesters returns an error and no login: the selections of   *)
(* the earlier leaves are dropped and no later leaf is processed.          *)
(***************************************************************************)
C5_FatalLookupAborts ==
    [][/\ (InLeaf /\ RequiredLookupFailed)' => Aborted'
       /\ (pc = "admins" /\ UnknownAdminScope) => Aborted']_vars

C5_Witness ==
    /\ Aborted
    /\ RequiredLookupFailed
    /\ idx = 2
    /\ blocks[1].selection # <<>>
    /\ Len(pendingLeafNodes) = 3

(***************************************************************************)
(* C6.  A failed lookup of the sampled team or organization never makes    *)
(* FindRandomRequesters return an error, and the candidates of the leaf    *)
(* are what they are when the lookup answers with no member: the users,    *)
(* the members the other lookup answered, the write collaborators and the  *)
(* admins.                                                                 *)
(***************************************************************************)
CandidatesSoFar ==
    Range(rule.Users)
    \cup Answered(LookupsAt(81))
    \cup Answered(LookupsAt(90))
    \cup (IF /\ pc \in {"admins", "adminTeams", "addAdmins", "filter",
                        "select", "draw", "selected"}
             /\ rule.WriteCollaborators
          THEN KeysWith(allCollaborators, GithubWritePermission) ELSE {})
    \cup (IF pc \in {"filter", "select", "draw", "selected"} /\ rule.Admins
          THEN Range(adminUsers) ELSE {})

C6_MemberLookupFailureIsNotFatal ==
    /\ (pc = "done" /\ err) => (RequiredLookupFailed \/ UnknownAdminScope)
    /\ (InLeaf /\ pc # "done" /\ FillLookupFailed) =>
           allUsers = CandidatesSoFar

C6_Witness ==
    /\ pc = "done" /\ ~err
    /\ Len(blocks) = 2
    /\ blocks[1].lookupFailed
    /\ blocks[1].selection # <<>>
    /\ blocks[2].selection # <<>>

(***************************************************************************)
(* C7.  Without an error, what FindRandomRequesters returns is the         *)
(* concatenation, in depth-first left-to-right order of the leaves, of one *)
(* block per leaf, of min(RequiredCount, number of candidates) logins, all *)
(* of them candidates of that leaf.  The leaves are those the leaf         *)
(* collector returns.                                                      *)
(***************************************************************************)
RECURSIVE Concatenation(_)
Concatenation(bs) ==
    IF bs = <<>> THEN <<>>
    ELSE Concatenation(SubSeq(bs, 1, Len(bs) - 1)) \o bs[Len(bs)].selection

C7_ConcatenationOfBlocks ==
    (pc = "done" /\ ~err) =>
        LET leaves == LeavesAt(result, CollectedLeafPaths(result)) IN
        /\ Len(blocks) = Len(leaves)
        /\ ret = Concatenation(blocks)
        /\ \A k \in DOMAIN blocks :
            LET b == blocks[k] IN
            /\ b.leaf = leaves[k]
            /\ Len(b.selection) =
                   Min(b.leaf.ReviewRequestRule.RequiredCount, Len(b.candidates))
            /\ Range(b.selection) \subseteq Range(b.candidates)
            /\ IsDuplicateFree(b.selection)

C7_Witness ==
    /\ pc = "done" /\ ~err
    /\ Len(blocks) = 3
    /\ Len(blocks[1].selection) = 1 /\ Len(blocks[1].candidates) = 2
    /\ Len(blocks[2].selection) = 1 /\ Len(blocks[2].candidates) = 2
    /\ blocks[3].selection # <<>>
    /\ Len(ret) = 3

(***************************************************************************)
(* C8.  One call of selectRandomUsers with 0 < n < len(candidates) makes   *)
(* at most 5 * n draws.  The code bounds the collisions of each pick, not  *)
(* the draws of the call.                                                  *)
(***************************************************************************)
C8_DrawsWithinBound ==
    (pc \in {"draw", "selected", "panic"} /\ 0 < n /\ n < Len(allUserList)) =>
        draws <= AttemptFactor * n

(***************************************************************************)
(* C9.  With 0 < n < len(candidates), selectRandomUsers never panics.      *)
(* As amended: it panics only in a pick after the first, when that pick    *)
(* has drawn an already selected index 5 * n + 1 times in a row; when it   *)
(* returns, it returns n picks.                                            *)
(***************************************************************************)
C9_NeverPanics == pc # "panic"

\* C9, as amended: the panic is reached only in a pick after the first, with
\* j = 5 * n + 1 collisions in that pick; a call that returns, returns n picks.
C9_PanicOnlyAfterCollisions ==
    /\ pc = "panic" =>
           /\ 0 < i /\ i < n
           /\ j = AttemptFactor * n + 1
           /\ draws >= i + j
    /\ pc = "draw" => j <= AttemptFactor * n + 1
    /\ (pc = "selected" /\ 0 < n /\ n < Len(allUserList)) =>
           Len(randomSelection) = n

C9_Witness == pc = "panic" /\ n < Len(allUserList) /\ 0 < n

(***************************************************************************)
(* C10.  Filling the candidates of a leaf makes one TeamMembers call when  *)
(* the rule has teams and none when it has none, and likewise one          *)
(* OrganizationMembers call; the team and the organization looked up are   *)
(* among the configured ones, and only the members those calls answered    *)
(* are added.                                                              *)
(***************************************************************************)
C10_OneTeamOneOrganization ==
    InLeaf =>
        LET teams == LookupsAt(81)
            orgs == LookupsAt(90)
        IN /\ Len(teams) <= 1 /\ Len(orgs) <= 1
           /\ pc # "teams" =>
                  Len(teams) = (IF Len(rule.Teams) > 0 THEN 1 ELSE 0)
           /\ pc \notin {"teams", "orgs"} =>
                  Len(orgs) = (IF Len(rule.Organizations) > 0 THEN 1 ELSE 0)
           /\ \A k \in DOMAIN teams :
                  /\ teams[k].fn = "TeamMembers"
                  /\ teams[k].arg \in Range(rule.Teams)
           /\ \A k \in DOMAIN orgs :
                  /\ orgs[k].fn = "OrganizationMembers"
                  /\ orgs[k].arg \in Range(rule.Organizations)
           /\ pc = "collaborators" =>
                  allUsers = Range(rule.Users) \cup Answered(teams)
                                 \cup Answered(orgs)

C10_Witness ==
    /\ pc = "collaborators"
    /\ Len(rule.Teams) = 2 /\ Len(rule.Organizations) = 2
    /\ Answered(LookupsAt(81)) # {}
    /\ Answered(LookupsAt(90)) # {}
    /\ Answered(LookupsAt(81)) # Answered(LookupsAt(90))

====
